---- MODULE Spec2Model ----
(***************************************************************************)
(* Model of src/application.py: a Streamlit page that loads uploaded CSV   *)
(* files into DataFrames, builds a prompt and hands it to a pandas agent.  *)
(*                                                                         *)
(* Streamlit re-executes the whole script, top to bottom, after every      *)
(* change of a widget value.  One action of the model is therefore one     *)
(* user interaction followed by the complete script run it triggers.       *)
(*                                                                         *)
(* Text is modelled as a sequence of tokens (a token is a TLA+ string);    *)
(* concatenation of text is \o, the empty string is << >>.  The tokens     *)
(* "\n", " " and "    " are whitespace.                                    *)
(***************************************************************************)
EXTENDS Integers, Sequences, FiniteSets, TLC

VARIABLES openai_api_key, uploaded_files, user_question, question_rendered,
          out, run, event, agent_calls, submissions

vars == <<openai_api_key, uploaded_files, user_question, question_rendered,
          out, run, event, agent_calls, submissions>>

(***************************************************************************)
(* Bounds of the model.                                                    *)
(***************************************************************************)
MaxFiles == 3      \* most files held by the uploader at once
MaxCols  == 16     \* width of the widest CSV file in the catalogue
MaxCalls == 3      \* cap on the two history counters

(***************************************************************************)
(* Program constants.                                                      *)
(***************************************************************************)
ColumnSampleSize == 15     \* df.columns[:15]
PreviewRows == 3           \* df.head(3)

Min(a, b) == IF a < b THEN a ELSE b

(***************************************************************************)
(* Inputs.                                                                 *)
(***************************************************************************)
ColumnNames(k) == [i \in 1..k |-> "c" \o ToString(i)]

\* An uploaded file: its name, whether pd.read_csv can parse it, and the
\* header and the number of data rows pd.read_csv finds in it.
File(name, ok, k, rows) ==
    [name |-> name, wellformed |-> ok, columns |-> ColumnNames(k), nrows |-> rows]

Catalogue ==
    { File("sales.csv", TRUE, 3, 5),
      File("faq.csv", TRUE, ColumnSampleSize, 2),
      File("wide.csv", TRUE, MaxCols, 4),
      File("broken.csv", FALSE, 0, 0) }

Keys == {"", "sk-1", "sk-2"}

Questions == { << >>, <<"what is the return policy">>, <<" ", "total sales", "\n">> }

AgentResults ==
    { [raised |-> FALSE, text |-> <<"The return policy is 30 days.">>],
      [raised |-> TRUE,  text |-> <<"RateLimitError">>] }

InitResults ==
    { [raised |-> FALSE, text |-> << >>],
      [raised |-> TRUE,  text |-> <<"AuthenticationError">>] }

(***************************************************************************)
(* Rendered page.  Every st.* display call appends one element, in script  *)
(* order.  The static elements (page title, sidebar texts, the three       *)
(* input widgets, the column containers) are the same in every run and     *)
(* are left out.                                                           *)
(***************************************************************************)
El(kind, text) == [kind |-> kind, text |-> text, rows |-> 0]

Dataframe(df) == [kind |-> "dataframe", text |-> df.columns, rows |-> Min(PreviewRows, df.nrows)]

WarningMessage == <<"Please enter your OpenAI API Key in the sidebar to proceed.">>
InfoMessage == <<"Please upload your CSV files to start.">>

(***************************************************************************)
(* Line 48: if uploaded_files and openai_api_key                           *)
(***************************************************************************)
GateEither(files, key) == files # << >> \/ key # ""

GateFilesOnly(files, key) == files # << >>

Gate(files, key) == files # << >> /\ key # ""

(***************************************************************************)
(* Lines 149-152: the two instructional messages.                          *)
(***************************************************************************)
InstructionSwapped(key) ==
    IF key # "" THEN El("warning", WarningMessage)
                ELSE El("info", InfoMessage)

Instruction(key) ==
    IF key = "" THEN El("warning", WarningMessage)
                ELSE El("info", InfoMessage)

(***************************************************************************)
(* Lines 55-62: the loading loop.  pd.read_csv raises on a malformed file; *)
(* nothing catches it there, so the loop and the script run end at the     *)
(* first malformed file.  acc carries dfs, df_names and the page so far.   *)
(***************************************************************************)
ReadCsv(file) == [columns |-> file.columns, nrows |-> file.nrows]

RECURSIVE LoadLoop(_, _, _)
LoadLoop(files, i, acc) ==
    IF i > Len(files) THEN acc
    ELSE IF ~files[i].wellformed
         THEN [acc EXCEPT !.raised = TRUE, !.failed = i]
         ELSE LoadLoop(files, i + 1,
                  [acc EXCEPT !.dfs = Append(@, ReadCsv(files[i])),
                              !.df_names = Append(@, files[i].name),
                              !.out = @ \o << El("write", <<"**", files[i].name, "**">>),
                                              Dataframe(ReadCsv(files[i])) >>])

LoadedHeader(files) == El("write", <<"### Loaded ", ToString(Len(files)), " CSV file(s):">>)

Load(files) ==
    LoadLoop(files, 1, [dfs |-> << >>, df_names |-> << >>,
                        out |-> << LoadedHeader(files) >>,
                        raised |-> FALSE, failed |-> 0])

(***************************************************************************)
(* Lines 65-69: the summary of the DataFrames.                             *)
(***************************************************************************)
RECURSIVE Join(_, _)
Join(parts, sep) ==
    IF parts = << >> THEN << >>
    ELSE IF Len(parts) = 1 THEN parts[1]
    ELSE parts[1] \o sep \o Join(Tail(parts), sep)

\* df.columns[:15], each label through str(); read_csv yields str labels.
ColsSampleShort(df) ==
    [i \in 1..Min(ColumnSampleSize - 1, Len(df.columns)) |-> <<df.columns[i]>>]

ColsSample(df) ==
    [i \in 1..Min(ColumnSampleSize, Len(df.columns)) |-> <<df.columns[i]>>]

SummaryLine(name, df) ==
    <<"- File: '", name, "' | Columns: ">> \o Join(ColsSample(df), <<", ">>)

\* zip(df_names, dfs) stops at the shorter of the two lists.
Summaries(df_names, dfs) ==
    [i \in 1..Min(Len(df_names), Len(dfs)) |-> SummaryLine(df_names[i], dfs[i])]

DfSummaryText(df_names, dfs) == Join(Summaries(df_names, dfs), <<"\n">>)

(***************************************************************************)
(* Lines 72-102: the system prompt, an f-string with the summary embedded  *)
(* between two fixed parts, then .strip().                                 *)
(***************************************************************************)
Whitespace == {"\n", " ", "    "}

RECURSIVE LStrip(_)
LStrip(s) == IF s # << >> /\ Head(s) \in Whitespace THEN LStrip(Tail(s)) ELSE s

RECURSIVE RStrip(_)
RStrip(s) ==
    IF s # << >> /\ s[Len(s)] \in Whitespace THEN RStrip(SubSeq(s, 1, Len(s) - 1)) ELSE s

Strip(s) == RStrip(LStrip(s))

PolicyHead ==
    <<"You are a strict data assistant ... GENERAL RULES ... TEXT QUESTIONS ... NUMERIC QUESTIONS ...",
      "\n", "\n", "ABOUT THE DATA", "\n",
      "The following DataFrames are loaded from CSV files:", "\n">>

PolicyTail ==
    <<"\n", "\n", "ANSWER STYLE", "\n",
      "- Answer in plain English. ... - Only mention file/column names briefly if helpful.">>

SystemPrompt(df_summary_text) ==
    Strip(<<"\n">> \o PolicyHead \o df_summary_text \o PolicyTail \o <<"\n", "    ">>)

(***************************************************************************)
(* Lines 132-136: the query handed to agent.run.                           *)
(***************************************************************************)
QueryLead == <<"\n", "\n", "Now answer this question using the DataFrames only:", "\n">>

FinalQueryStripped(system_prompt, question) == Strip(system_prompt \o QueryLead \o question)

FinalQuery(system_prompt, question) == system_prompt \o QueryLead \o question

(***************************************************************************)
(* Lines 128-144: the answer to a non-empty question.  agent.run is called *)
(* once; its return value is shown under a success banner, an exception    *)
(* it raises is shown in an error banner.                                  *)
(***************************************************************************)
NoPrompt == << >>

AnswerBlockEarlySuccess(system_prompt, question, agent) ==
    IF question = << >>
    THEN [out |-> << >>, calls |-> 0, prompt |-> NoPrompt, raised |-> FALSE]
    ELSE [out |-> << El("success", <<"Analysis complete!">>) >>
                  \o (IF agent.raised
                      THEN << El("error", <<"Error while answering: ">> \o agent.text) >>
                      ELSE << El("write", <<"### AI Response:">>),
                              El("markdown", agent.text) >>),
          calls |-> 1,
          prompt |-> FinalQuery(system_prompt, question),
          raised |-> agent.raised]

AnswerBlock(system_prompt, question, agent) ==
    IF question = << >>
    THEN [out |-> << >>, calls |-> 0, prompt |-> NoPrompt, raised |-> FALSE]
    ELSE [out |-> IF agent.raised
                  THEN << El("error", <<"Error while answering: ">> \o agent.text) >>
                  ELSE << El("success", <<"Analysis complete!">>),
                          El("write", <<"### AI Response:">>),
                          El("markdown", agent.text) >>,
          calls |-> 1,
          prompt |-> FinalQuery(system_prompt, question),
          raised |-> agent.raised]

(***************************************************************************)
(* Lines 104-147: the outer try.  ChatOpenAI(...) or                       *)
(* create_pandas_dataframe_agent(...) may raise; the outer except then     *)
(* shows the error, and the rest of the block, the question input          *)
(* included, is skipped.                                                   *)
(***************************************************************************)
TryBlock(system_prompt, question, init, agent) ==
    IF init.raised
    THEN [out |-> << El("error", <<"Error initializing the AI agent: ">> \o init.text) >>,
          constructed |-> FALSE, rendered |-> FALSE, question |-> << >>,
          calls |-> 0, prompt |-> NoPrompt, raised |-> FALSE]
    ELSE LET a == AnswerBlock(system_prompt, question, agent)
         IN  [out |-> << El("markdown", <<"---">>),
                         El("subheader", <<"Ask a question in normal language">>) >> \o a.out,
              constructed |-> TRUE, rendered |-> TRUE, question |-> question,
              calls |-> a.calls, prompt |-> a.prompt, raised |-> a.raised]

(***************************************************************************)
(* Lines 48-152: one run of the script on the current widget values.       *)
(* question is the value the question input returns if the run reaches it. *)
(* An exception that leaves the script ends the run; Streamlit shows it    *)
(* in place of the rest of the page.                                       *)
(***************************************************************************)
Idle ==
    [aborted |-> FALSE, failed |-> 0, dfs |-> << >>, df_names |-> << >>,
     df_summary_text |-> << >>, constructed |-> FALSE, init_raised |-> FALSE,
     rendered |-> FALSE, question |-> << >>, calls |-> 0, prompt |-> NoPrompt,
     raised |-> FALSE, error |-> << >>]

Script(files, key, question, init, agent) ==
    IF Gate(files, key)
    THEN LET l == Load(files)
         IN  IF l.raised
             THEN [out |-> l.out \o << El("exception", <<"pandas.errors.ParserError">>) >>,
                   run |-> [Idle EXCEPT !.aborted = TRUE, !.failed = l.failed,
                                        !.dfs = l.dfs, !.df_names = l.df_names]]
             ELSE LET summary == DfSummaryText(l.df_names, l.dfs)
                      t == TryBlock(SystemPrompt(summary), question, init, agent)
                  IN  [out |-> l.out \o t.out,
                       run |-> [Idle EXCEPT !.dfs = l.dfs, !.df_names = l.df_names,
                                            !.df_summary_text = summary,
                                            !.constructed = t.constructed,
                                            !.init_raised = init.raised,
                                            !.rendered = t.rendered,
                                            !.question = t.question,
                                            !.calls = t.calls,
                                            !.prompt = t.prompt,
                                            !.raised = t.raised,
                                            !.error = IF init.raised THEN init.text
                                                      ELSE IF t.raised THEN agent.text
                                                      ELSE << >>]]
    ELSE [out |-> << Instruction(key) >>, run |-> Idle]

(***************************************************************************)
(* The value of the question input after a run.  A run that executes       *)
(* st.text_input keeps the value.  A run that does not reach it leaves the *)
(* fate of the widget's value to Streamlit: kept, or reset to the default. *)
(***************************************************************************)
QuestionAfter(question, rendered, keep) ==
    IF rendered \/ keep THEN question ELSE << >>

(***************************************************************************)
(* State machine.                                                          *)
(***************************************************************************)
Init ==
    /\ openai_api_key = ""
    /\ uploaded_files = << >>
    /\ user_question = << >>
    /\ question_rendered = FALSE
    /\ out = << Instruction("") >>
    /\ run = Idle
    /\ event = "start"
    /\ agent_calls = 0
    /\ submissions = 0

\* The script run that follows a widget change.
Rerun(files, key, question, ev) ==
    /\ agent_calls < MaxCalls
    /\ submissions < MaxCalls
    /\ \E init \in InitResults, agent \in AgentResults, keep \in BOOLEAN :
         LET r == Script(files, key, question, init, agent)
         IN  /\ openai_api_key' = key
             /\ uploaded_files' = files
             /\ user_question' = QuestionAfter(question, r.run.rendered, keep)
             /\ question_rendered' = r.run.rendered
             /\ out' = r.out
             /\ run' = r.run
             /\ event' = ev
             /\ agent_calls' = agent_calls + r.run.calls
             /\ submissions' = submissions
                               + (IF ev = "SubmitQuestion" /\ question # << >> THEN 1 ELSE 0)

\* The user types or clears the API key in the sidebar.
SetKey ==
    \E k \in Keys :
        /\ k # openai_api_key
        /\ Rerun(uploaded_files, k, user_question, "SetKey")

\* The user adds a file to the uploader (the inputs are files of distinct names).
UploadFile ==
    \E f \in Catalogue :
        /\ Len(uploaded_files) < MaxFiles
        /\ \A i \in 1..Len(uploaded_files) : uploaded_files[i].name # f.name
        /\ Rerun(Append(uploaded_files, f), openai_api_key, user_question, "UploadFile")

\* The user removes a file from the uploader.
RemoveFile ==
    \E i \in 1..Len(uploaded_files) :
        Rerun(SubSeq(uploaded_files, 1, i - 1)
                \o SubSeq(uploaded_files, i + 1, Len(uploaded_files)),
              openai_api_key, user_question, "RemoveFile")

\* The user enters a new value in the question input; the input exists only
\* if the last run rendered it.
SubmitQuestion ==
    \E q \in Questions :
        /\ question_rendered
        /\ q # user_question
        /\ Rerun(uploaded_files, openai_api_key, q, "SubmitQuestion")

Next == SetKey \/ UploadFile \/ RemoveFile \/ SubmitQuestion

Spec == Init /\ [][Next]_vars

(***************************************************************************)
(* Vocabulary of the properties.                                           *)
(***************************************************************************)
Shown(kind) == \E i \in 1..Len(out) : out[i].kind = kind

ShownWith(kind, text) == \E i \in 1..Len(out) : out[i].kind = kind /\ out[i].text = text

\* sub occurs in s, starting at position i
OccursAt(s, sub, i) ==
    /\ i >= 1
    /\ i + Len(sub) - 1 <= Len(s)
    /\ SubSeq(s, i, i + Len(sub) - 1) = sub

Contains(s, sub) == \E i \in 1..(Len(s) + 1) : OccursAt(s, sub, i)

\* s.split(sep) for a one-token separator
RECURSIVE SplitOn(_, _)
SplitOn(s, sep) ==
    IF \A i \in 1..Len(s) : s[i] # sep
    THEN << s >>
    ELSE LET i == CHOOSE k \in 1..Len(s) : s[k] = sep /\ \A m \in 1..(k - 1) : s[m] # sep
         IN  << SubSeq(s, 1, i - 1) >> \o SplitOn(SubSeq(s, i + 1, Len(s)), sep)

\* The lines of the summary block, and the two things a line carries.
SummaryLines == SplitOn(run.df_summary_text, "\n")

LineName(line) == line[2]

LineColumns(line) ==
    LET parts == SplitOn(SubSeq(line, 4, Len(line)), ", ")
    IN  [j \in 1..Len(parts) |-> parts[j]]

ExpectedColumns(file) ==
    IF Len(file.columns) <= ColumnSampleSize
    THEN [j \in 1..Len(file.columns) |-> << file.columns[j] >>]
    ELSE [j \in 1..ColumnSampleSize |-> << file.columns[j] >>]

\* The run built the summary block: the branch was taken and loading finished.
SummaryBuilt == Gate(uploaded_files, openai_api_key) /\ ~run.aborted

AnswerShown ==
    /\ Shown("success")
    /\ ShownWith("write", <<"### AI Response:">>)
    /\ \E i \in 1..Len(out) : out[i].kind = "markdown" /\ out[i].text # <<"---">>

AnswerErrorShown ==
    \E i \in 1..Len(out) :
        /\ out[i].kind = "error"
        /\ OccursAt(out[i].text, <<"Error while answering: ">>, 1)

(***************************************************************************)
(* C1.  The agent is invoked only when the credential is non-empty and at  *)
(* least one uploaded file has been parsed into a DataFrame.               *)
(***************************************************************************)
C1_AgentOnlyWhenReady ==
    run.calls > 0 =>
        /\ openai_api_key # ""
        /\ Len(run.dfs) >= 1
        /\ \E i \in 1..Len(uploaded_files) :
              uploaded_files[i].wellformed /\ run.dfs[1].columns = uploaded_files[i].columns

C1_Witness ==
    run.calls > 0 /\ event = "UploadFile" /\ agent_calls >= 2

(***************************************************************************)
(* C2 as written.  With no file uploaded the agent is not invoked and the  *)
(* message shown is the "upload files" prompt, whatever the credential.    *)
(***************************************************************************)
C2_UploadPromptAlways ==
    uploaded_files = << >> =>
        run.calls = 0 /\ ShownWith("info", InfoMessage)

(***************************************************************************)
(* C2 amended.  With no file uploaded the agent is neither built nor       *)
(* invoked; the message shown is the "upload files" prompt when the        *)
(* credential is non-empty and the "enter API key" message when it is      *)
(* empty.                                                                  *)
(***************************************************************************)
C2_NoFilesNoCall ==
    uploaded_files = << >> =>
        /\ run.calls = 0
        /\ ~run.constructed
        /\ IF openai_api_key # ""
           THEN out = << El("info", InfoMessage) >>
           ELSE out = << El("warning", WarningMessage) >>

C2_Witness ==
    /\ uploaded_files = << >>
    /\ openai_api_key # ""
    /\ user_question # << >>
    /\ agent_calls > 0
    /\ ShownWith("info", InfoMessage)

(***************************************************************************)
(* C3.  With an empty credential and at least one uploaded file, the agent *)
(* is neither built nor invoked and the "enter API key" message is shown,  *)
(* also after a question has been answered and the credential cleared.     *)
(***************************************************************************)
C3_MissingCredential ==
    (openai_api_key = "" /\ uploaded_files # << >>) =>
        /\ run.calls = 0
        /\ ~run.constructed
        /\ out = << El("warning", WarningMessage) >>

C3_Witness ==
    /\ openai_api_key = ""
    /\ uploaded_files # << >>
    /\ event = "SetKey"
    /\ agent_calls > 0
    /\ ShownWith("warning", WarningMessage)

(***************************************************************************)
(* C4.  Each submission of a non-empty question triggers exactly one agent *)
(* call, and a step that is not a question submission (a change of the     *)
(* credential, an added or removed file) triggers none: in every run that  *)
(* builds the agent, the calls made equal the questions submitted.         *)
(***************************************************************************)
C4_OneCallPerSubmission ==
    [][ run'.constructed =>
            (agent_calls' - agent_calls) = (submissions' - submissions) ]_vars

(***************************************************************************)
(* C5 as written.  The prompt holds, in this order, the full fixed policy  *)
(* text, then the summary lines, then the question, which ends the prompt. *)
(***************************************************************************)
C5_PolicyThenSummaryThenQuestion ==
    run.calls > 0 =>
        LET p == run.prompt
            S == run.df_summary_text
        IN  \E a, b, j \in 1..Len(p) :
                /\ OccursAt(p, PolicyHead, a)
                /\ OccursAt(p, PolicyTail, b)
                /\ OccursAt(p, S, j)
                /\ a + Len(PolicyHead) <= b
                /\ b + Len(PolicyTail) <= j
                /\ OccursAt(p, user_question, Len(p) - Len(user_question) + 1)

(***************************************************************************)
(* C5 amended.  The prompt is, in this order: the first part of the fixed  *)
(* policy text, one summary line per loaded table in table order, the rest *)
(* of the fixed policy text (the ANSWER STYLE section), the fixed line     *)
(* "Now answer this question using the DataFrames only:", and the question *)
(* as it stands in the question field, which ends the prompt.              *)
(***************************************************************************)
C5_PromptLayout ==
    run.calls > 0 =>
        LET p == run.prompt
            S == run.df_summary_text
            s == Len(PolicyHead) + 1
            t == s + Len(S)
            l == t + Len(PolicyTail)
            q == l + Len(QueryLead)
        IN  /\ OccursAt(p, PolicyHead, 1)
            /\ OccursAt(p, S, s)
            /\ Len(SummaryLines) = Len(uploaded_files)
            /\ \A i \in 1..Len(uploaded_files) :
                  LineName(SummaryLines[i]) = uploaded_files[i].name
            /\ OccursAt(p, PolicyTail, t)
            /\ OccursAt(p, QueryLead, l)
            /\ OccursAt(p, user_question, q)
            /\ Len(p) = q + Len(user_question) - 1
            /\ user_question # << >>

C5_Witness ==
    /\ run.calls > 0
    /\ Len(uploaded_files) >= 2
    /\ user_question = <<" ", "total sales", "\n">>
    /\ Contains(run.prompt, PolicyTail)

(***************************************************************************)
(* C6.  The summary block has exactly one line per table, in upload order, *)
(* carrying the file's name; the line lists all the column names of a      *)
(* table of at most 15 columns, and exactly the first 15, in order, of a   *)
(* wider table.                                                            *)
(***************************************************************************)
C6_SummaryColumns ==
    SummaryBuilt =>
        /\ Len(SummaryLines) = Len(uploaded_files)
        /\ \A i \in 1..Len(uploaded_files) :
              /\ LineName(SummaryLines[i]) = uploaded_files[i].name
              /\ LineColumns(SummaryLines[i]) = ExpectedColumns(uploaded_files[i])

C6_Witness ==
    /\ SummaryBuilt
    /\ Len(uploaded_files) >= 2
    /\ \E i \in 1..Len(uploaded_files) : Len(uploaded_files[i].columns) > ColumnSampleSize
    /\ \E i \in 1..Len(uploaded_files) : Len(uploaded_files[i].columns) = ColumnSampleSize
    /\ \E i \in 1..Len(SummaryLines) : Len(LineColumns(SummaryLines[i])) = ColumnSampleSize

(***************************************************************************)
(* C7.  When one of several uploaded files is malformed, every well-formed *)
(* file, before or after it, still gets its table and its preview, the     *)
(* malformed file is reported by name, and the run is not aborted.         *)
(***************************************************************************)
C7_MalformedFileIsolated ==
    ( /\ openai_api_key # ""
      /\ Len(uploaded_files) >= 2
      /\ Cardinality({i \in 1..Len(uploaded_files) : ~uploaded_files[i].wellformed}) = 1 )
    =>
        /\ ~run.aborted
        /\ \A i \in 1..Len(uploaded_files) :
              IF uploaded_files[i].wellformed
              THEN /\ ShownWith("write", <<"**", uploaded_files[i].name, "**">>)
                   /\ \E k \in 1..Len(run.df_names) : run.df_names[k] = uploaded_files[i].name
              ELSE \E k \in 1..Len(out) :
                      /\ out[k].kind \in {"error", "exception"}
                      /\ Contains(out[k].text, << uploaded_files[i].name >>)

(***************************************************************************)
(* C8.  When agent.run raises, an error banner with the text of the error  *)
(* is shown, no success banner and no answer are shown, and the question   *)
(* field, the loaded tables and the credential are as the run found them,  *)
(* with the question input on the page for a resubmission.                 *)
(***************************************************************************)
C8_AgentErrorShown ==
    run.raised =>
        /\ ShownWith("error", <<"Error while answering: ">> \o run.error)
        /\ run.error # << >>
        /\ ~Shown("success")
        /\ ~AnswerShown
        /\ question_rendered
        /\ user_question = run.question
        /\ user_question # << >>
        /\ openai_api_key # ""
        /\ Len(run.dfs) = Len(uploaded_files)
        /\ \A i \in 1..Len(uploaded_files) :
              run.dfs[i].columns = uploaded_files[i].columns

C8_Witness ==
    /\ run.raised
    /\ run.calls = 1
    /\ event = "SubmitQuestion"
    /\ AnswerErrorShown

(***************************************************************************)
(* C9.  When building the agent fails, the error is shown in an error      *)
(* banner, the question input is still on the page, and agent.run is not   *)
(* called in that run.                                                     *)
(***************************************************************************)
C9_InitErrorKeepsQuestionInput ==
    run.init_raised =>
        /\ ShownWith("error", <<"Error initializing the AI agent: ">> \o run.error)
        /\ run.calls = 0
        /\ question_rendered

(***************************************************************************)
(* C10.  A run that calls the agent shows exactly one of the answer (the   *)
(* success banner and the agent's text) and the error banner, calls the    *)
(* agent once, and is the run of a newly submitted question.               *)
(***************************************************************************)
C10_OneOutcomeNoRepeat ==
    run.calls > 0 =>
        /\ run.calls = 1
        /\ (AnswerShown /\ ~AnswerErrorShown) \/ (AnswerErrorShown /\ ~AnswerShown /\ ~Shown("success"))
        /\ event = "SubmitQuestion"

====
